---- MODULE Spec2Model ----
(***************************************************************************)
(* Facial emotion recognition: landmark geometry -> signal vector ->       *)
(* smoothing / calibration -> rule-based emotion label.                    *)
(*                                                                         *)
(* Real-valued signals are held as integers in units of 10^-6, so every    *)
(* threshold of emotion_classifier.py is an exact integer.  Comparisons    *)
(* are the source's comparisons on these exact values; quotients and       *)
(* means are rounded down to the unit.                                     *)
(***************************************************************************)
EXTENDS Integers, Sequences, FiniteSets, TLC

\* Python's None (the empty tuple, which can be compared with any dict or list)
None == <<>>

\* units per 1.0
SCALE == 1000 * 1000

---------------------------------------------------------------------------
(* emotion_classifier.py : thresholds                                      *)

SMILE_COEFF_HIGH == 5000
SMILE_COEFF_NEGATIVE == 0 - 5000
EAR_HIGH == 300000
EAR_LOW == 260000
MAR_HIGH == 500000
MAR_MODERATE == 150000
MAR_LOW == 100000
MOUTH_WIDTH_SMILE == 430000
BROW_DIST_LOW == 55000

DELTA_SMILE_HIGH == 6000
DELTA_SMILE_LOW_smaller == 0 - 3000
DELTA_SMILE_LOW == 0 - 6000
DELTA_EAR_HIGH == 40000
DELTA_EAR_LOW == 0 - 30000
DELTA_MAR_HIGH == 350000
DELTA_MAR_MOD == 80000
DELTA_MAR_LOW == 0 - 10000
DELTA_MW_SMILE == 15000
DELTA_BROW_LOW == 0 - 20000

\* main.py SCALAR_KEYS
SCALAR_KEYS == <<"ear_avg", "mar", "smile_coeff", "mouth_width", "brow_dist">>

\* the keys _classify_absolute / _classify_delta subscript params with
ClassifierKeys == {"ear_avg", "mar", "smile_coeff", "mouth_width", "brow_dist"}

KeyError == "KeyError"

---------------------------------------------------------------------------
(* emotion_classifier.py : the two decision procedures                     *)

\* Happy tested before Surprised
_classify_absolute_happy_first(params) ==
    IF ~(ClassifierKeys \subseteq DOMAIN params) THEN KeyError
    ELSE LET ear == params["ear_avg"]
             mar == params["mar"]
             smile == params["smile_coeff"]
             mouth_width == params["mouth_width"]
             brow_dist == params["brow_dist"]
         IN  IF smile > SMILE_COEFF_HIGH /\ (mar >= MAR_LOW \/ mouth_width > MOUTH_WIDTH_SMILE)
               THEN "Happy"
             ELSE IF ear > EAR_HIGH /\ mar > MAR_HIGH
               THEN "Surprised"
             ELSE IF smile < SMILE_COEFF_HIGH /\ brow_dist < BROW_DIST_LOW
               THEN "Angry"
             ELSE IF smile < SMILE_COEFF_HIGH /\ ear < EAR_LOW /\ mar < MAR_MODERATE
               THEN "Angry"
             ELSE IF smile < SMILE_COEFF_NEGATIVE /\ ear >= EAR_LOW /\ brow_dist >= BROW_DIST_LOW
               THEN "Sad"
             ELSE "Neutral"

\* the furrowed-brow path of Angry left out
_classify_absolute_no_brow_path(params) ==
    IF ~(ClassifierKeys \subseteq DOMAIN params) THEN KeyError
    ELSE LET ear == params["ear_avg"]
             mar == params["mar"]
             smile == params["smile_coeff"]
             mouth_width == params["mouth_width"]
             brow_dist == params["brow_dist"]
         IN  IF ear > EAR_HIGH /\ mar > MAR_HIGH
               THEN "Surprised"
             ELSE IF smile > SMILE_COEFF_HIGH /\ (mar >= MAR_LOW \/ mouth_width > MOUTH_WIDTH_SMILE)
               THEN "Happy"
             ELSE IF smile < SMILE_COEFF_HIGH /\ ear < EAR_LOW /\ mar < MAR_MODERATE
               THEN "Angry"
             ELSE IF smile < SMILE_COEFF_NEGATIVE /\ ear >= EAR_LOW /\ brow_dist >= BROW_DIST_LOW
               THEN "Sad"
             ELSE "Neutral"

\* a missing key raises KeyError at the subscript (lines 52-56)
_classify_absolute(params) ==
    IF ~(ClassifierKeys \subseteq DOMAIN params) THEN KeyError
    ELSE LET ear == params["ear_avg"]
             mar == params["mar"]
             smile == params["smile_coeff"]
             mouth_width == params["mouth_width"]
             brow_dist == params["brow_dist"]
         IN  IF ear > EAR_HIGH /\ mar > MAR_HIGH
               THEN "Surprised"
             ELSE IF smile > SMILE_COEFF_HIGH /\ (mar >= MAR_LOW \/ mouth_width > MOUTH_WIDTH_SMILE)
               THEN "Happy"
             ELSE IF smile < SMILE_COEFF_HIGH /\ brow_dist < BROW_DIST_LOW
               THEN "Angry"
             ELSE IF smile < SMILE_COEFF_HIGH /\ ear < EAR_LOW /\ mar < MAR_MODERATE
               THEN "Angry"
             ELSE IF smile < SMILE_COEFF_NEGATIVE /\ ear >= EAR_LOW /\ brow_dist >= BROW_DIST_LOW
               THEN "Sad"
             ELSE "Neutral"

\* Angry's smile test written like the absolute one (d_smile < DELTA_SMILE_HIGH)
_classify_delta_angry_like_absolute(params, baseline) ==
    IF ~(ClassifierKeys \subseteq DOMAIN params) \/ ~(ClassifierKeys \subseteq DOMAIN baseline)
      THEN KeyError
    ELSE LET d_ear == params["ear_avg"] - baseline["ear_avg"]
             d_mar == params["mar"] - baseline["mar"]
             d_smile == params["smile_coeff"] - baseline["smile_coeff"]
             d_mw == params["mouth_width"] - baseline["mouth_width"]
             d_brow == params["brow_dist"] - baseline["brow_dist"]
         IN  IF d_ear > DELTA_EAR_HIGH /\ d_mar > DELTA_MAR_HIGH
               THEN "Surprised"
             ELSE IF d_smile > DELTA_SMILE_HIGH /\ (d_mar > DELTA_MAR_LOW \/ d_mw > DELTA_MW_SMILE)
               THEN "Happy"
             ELSE IF d_smile < DELTA_SMILE_HIGH /\ d_brow < DELTA_BROW_LOW
               THEN "Angry"
             ELSE IF d_smile < DELTA_SMILE_HIGH /\ d_ear < DELTA_EAR_LOW /\ d_mar < DELTA_MAR_MOD
               THEN "Angry"
             ELSE IF d_smile < DELTA_SMILE_LOW /\ d_ear >= DELTA_EAR_LOW /\ d_brow >= DELTA_BROW_LOW
               THEN "Sad"
             ELSE "Neutral"

_classify_delta(params, baseline) ==
    IF ~(ClassifierKeys \subseteq DOMAIN params) \/ ~(ClassifierKeys \subseteq DOMAIN baseline)
      THEN KeyError
    ELSE LET d_ear == params["ear_avg"] - baseline["ear_avg"]
             d_mar == params["mar"] - baseline["mar"]
             d_smile == params["smile_coeff"] - baseline["smile_coeff"]
             d_mw == params["mouth_width"] - baseline["mouth_width"]
             d_brow == params["brow_dist"] - baseline["brow_dist"]
         IN  IF d_ear > DELTA_EAR_HIGH /\ d_mar > DELTA_MAR_HIGH
               THEN "Surprised"
             ELSE IF d_smile > DELTA_SMILE_HIGH /\ (d_mar > DELTA_MAR_LOW \/ d_mw > DELTA_MW_SMILE)
               THEN "Happy"
             ELSE IF d_smile < -DELTA_SMILE_HIGH /\ d_brow < DELTA_BROW_LOW
               THEN "Angry"
             ELSE IF d_smile < -DELTA_SMILE_HIGH /\ d_ear < DELTA_EAR_LOW /\ d_mar < DELTA_MAR_MOD
               THEN "Angry"
             ELSE IF d_smile < DELTA_SMILE_LOW /\ d_ear >= DELTA_EAR_LOW /\ d_brow >= DELTA_BROW_LOW
               THEN "Sad"
             ELSE "Neutral"

classify_emotion(params, baseline) ==
    IF baseline = None THEN _classify_absolute(params)
    ELSE _classify_delta(params, baseline)

---------------------------------------------------------------------------
(* landmark_utils.py : landmark indices                                    *)

RIGHT_EYE == <<33, 160, 158, 133, 153, 144>>
LEFT_EYE == <<362, 385, 387, 263, 373, 380>>
MOUTH_TOP == 13
MOUTH_BOTTOM == 14
MOUTH_UPPER_INNER_LEFT == 82
MOUTH_LOWER_INNER_LEFT == 87
MOUTH_UPPER_INNER_RIGHT == 312
MOUTH_LOWER_INNER_RIGHT == 317
MOUTH_LEFT_CORNER == 61
MOUTH_RIGHT_CORNER == 291
FACE_LEFT == 234
FACE_RIGHT == 454
FACE_TOP == 10
FACE_BOTTOM == 152

\* A landmark set is a function from landmark index to a point <<x, y>>
\* (pixel coordinates; Python's p[0], p[1] are p[1], p[2] here).

\* integer square root; exact on the perfect squares the landmark pool produces
ISqrt(n) == CHOOSE r \in 0..n : r * r <= n /\ n < (r + 1) * (r + 1)

euclidean_distance(p1, p2) ==
    ISqrt((p1[1] - p2[1]) * (p1[1] - p2[1]) + (p1[2] - p2[2]) * (p1[2] - p2[2]))

\* the zero-width guard forgotten: the quotient is taken whatever horizontal is
\* (numpy yields inf or nan there; held as the value -1, which no ratio of distances takes)
compute_ear_unguarded(landmarks, eye_indices) ==
    LET vertical_a == euclidean_distance(landmarks[eye_indices[2]], landmarks[eye_indices[6]])
        vertical_b == euclidean_distance(landmarks[eye_indices[3]], landmarks[eye_indices[5]])
        horizontal == euclidean_distance(landmarks[eye_indices[1]], landmarks[eye_indices[4]])
    IN  IF horizontal = 0 THEN 0 - 1
        ELSE (SCALE * (vertical_a + vertical_b)) \div (2 * horizontal)

compute_ear(landmarks, eye_indices) ==
    LET vertical_a == euclidean_distance(landmarks[eye_indices[2]], landmarks[eye_indices[6]])
        vertical_b == euclidean_distance(landmarks[eye_indices[3]], landmarks[eye_indices[5]])
        horizontal == euclidean_distance(landmarks[eye_indices[1]], landmarks[eye_indices[4]])
    IN  IF horizontal = 0 THEN 0
        ELSE (SCALE * (vertical_a + vertical_b)) \div (2 * horizontal)

compute_mar(landmarks) ==
    LET vertical_a == euclidean_distance(landmarks[MOUTH_TOP], landmarks[MOUTH_BOTTOM])
        vertical_b == euclidean_distance(landmarks[MOUTH_UPPER_INNER_LEFT],
                                         landmarks[MOUTH_LOWER_INNER_LEFT])
        vertical_c == euclidean_distance(landmarks[MOUTH_UPPER_INNER_RIGHT],
                                         landmarks[MOUTH_LOWER_INNER_RIGHT])
        horizontal == euclidean_distance(landmarks[MOUTH_LEFT_CORNER], landmarks[MOUTH_RIGHT_CORNER])
    IN  IF horizontal = 0 THEN 0
        ELSE (SCALE * (vertical_a + vertical_b + vertical_c)) \div (3 * horizontal)

compute_mouth_width(landmarks) ==
    LET mouth_w == euclidean_distance(landmarks[MOUTH_LEFT_CORNER], landmarks[MOUTH_RIGHT_CORNER])
        face_w == euclidean_distance(landmarks[FACE_LEFT], landmarks[FACE_RIGHT])
    IN  IF face_w = 0 THEN 0
        ELSE (SCALE * mouth_w) \div face_w

\* corner_avg_y = (yl + yr) / 2, so (center_y - corner_avg_y) / face_h
\*              = (2 * center_y - yl - yr) / (2 * face_h)
compute_smile_coefficient(landmarks) ==
    LET corner_sum_y == landmarks[MOUTH_LEFT_CORNER][2] + landmarks[MOUTH_RIGHT_CORNER][2]
        center_y == landmarks[MOUTH_TOP][2]
        face_h == euclidean_distance(landmarks[FACE_TOP], landmarks[FACE_BOTTOM])
    IN  IF face_h = 0 THEN 0
        ELSE (SCALE * (2 * center_y - corner_sum_y)) \div (2 * face_h)

SetMin(S) == CHOOSE m \in S : \A x \in S : m <= x
SetMax(S) == CHOOSE m \in S : \A x \in S : m >= x

RECURSIVE SeqSum(_)
SeqSum(s) == IF s = <<>> THEN 0 ELSE Head(s) + SeqSum(Tail(s))

\* centre of the six eye points relative to their bounding box; <<rel_x, rel_y>>
compute_eye_position(landmarks, eye_indices) ==
    LET xs == [i \in 1..Len(eye_indices) |-> landmarks[eye_indices[i]][1]]
        ys == [i \in 1..Len(eye_indices) |-> landmarks[eye_indices[i]][2]]
        n == Len(eye_indices)
        min_x == SetMin({xs[i] : i \in 1..n})
        min_y == SetMin({ys[i] : i \in 1..n})
        max_x == SetMax({xs[i] : i \in 1..n})
        max_y == SetMax({ys[i] : i \in 1..n})
        w == max_x - min_x
        h == max_y - min_y
        rel_x == IF w > 0 THEN (SCALE * (SeqSum(xs) - n * min_x)) \div (n * w) ELSE SCALE \div 2
        rel_y == IF h > 0 THEN (SCALE * (SeqSum(ys) - n * min_y)) \div (n * h) ELSE SCALE \div 2
    IN  <<rel_x, rel_y>>

\* the dict returned has exactly these eight keys: there is no "brow_dist"
extract_all_parameters(landmarks) ==
    LET ear_right == compute_ear(landmarks, RIGHT_EYE)
        ear_left == compute_ear(landmarks, LEFT_EYE)
    IN  [ear_right |-> ear_right,
         ear_left |-> ear_left,
         ear_avg |-> (ear_right + ear_left) \div 2,
         mar |-> compute_mar(landmarks),
         mouth_width |-> compute_mouth_width(landmarks),
         smile_coeff |-> compute_smile_coefficient(landmarks),
         eye_pos_right |-> compute_eye_position(landmarks, RIGHT_EYE),
         eye_pos_left |-> compute_eye_position(landmarks, LEFT_EYE)]

\* the two keys whose value is a pair, not a scalar
PairKeys == {"eye_pos_right", "eye_pos_left"}

---------------------------------------------------------------------------
(* Landmark sets the detector may deliver.  Only the 24 indices the        *)
(* extractor reads are kept.  Every distance taken between these points is *)
(* an integer (axis-aligned, or the 60-80-100 triangle), so ISqrt is exact.*)

LandmarkIdx ==
    {RIGHT_EYE[i] : i \in 1..6} \cup {LEFT_EYE[i] : i \in 1..6} \cup
    {MOUTH_TOP, MOUTH_BOTTOM, MOUTH_UPPER_INNER_LEFT, MOUTH_LOWER_INNER_LEFT,
     MOUTH_UPPER_INNER_RIGHT, MOUTH_LOWER_INNER_RIGHT, MOUTH_LEFT_CORNER,
     MOUTH_RIGHT_CORNER, FACE_LEFT, FACE_RIGHT, FACE_TOP, FACE_BOTTOM}

\* p1..p6 of one eye whose outer corner is at x0: "open", "closed" (lids
\* touch) or "degenerate" (the two corners coincide)
EyePoints(x0, kind) ==
    LET lid == IF kind = "closed" THEN 0 ELSE 3
        c1 == IF kind = "degenerate" THEN x0 + 10 ELSE x0
        c4 == IF kind = "degenerate" THEN x0 + 10 ELSE x0 + 20
    IN  << <<c1, 30>>, <<x0 + 5, 30 - lid>>, <<x0 + 15, 30 - lid>>,
           <<c4, 30>>, <<x0 + 15, 30 + lid>>, <<x0 + 5, 30 + lid>> >>

FaceConfigs ==
    [reye : {"open", "closed", "degenerate"},
     leye : {"open", "closed", "degenerate"},
     lips : {"open", "closed"},
     corners : {"apart", "coincident"},
     corner_y : {64, 68, 72},
     face_w : {"level", "tilted", "zero"},
     face_h : {"normal", "zero"}]

MkLandmarks(c) ==
    LET re == EyePoints(20, c.reye)
        le == EyePoints(60, c.leye)
        gap == IF c.lips = "open" THEN 1 ELSE 0
    IN  [i \in LandmarkIdx |->
           IF \E j \in 1..6 : RIGHT_EYE[j] = i
             THEN re[CHOOSE j \in 1..6 : RIGHT_EYE[j] = i]
           ELSE IF \E j \in 1..6 : LEFT_EYE[j] = i
             THEN le[CHOOSE j \in 1..6 : LEFT_EYE[j] = i]
           ELSE IF i = MOUTH_TOP THEN <<50, 68>>
           ELSE IF i = MOUTH_BOTTOM THEN <<50, 68 + 6 * gap>>
           ELSE IF i = MOUTH_UPPER_INNER_LEFT THEN <<45, 68>>
           ELSE IF i = MOUTH_LOWER_INNER_LEFT THEN <<45, 68 + 5 * gap>>
           ELSE IF i = MOUTH_UPPER_INNER_RIGHT THEN <<55, 68>>
           ELSE IF i = MOUTH_LOWER_INNER_RIGHT THEN <<55, 68 + 5 * gap>>
           ELSE IF i = MOUTH_LEFT_CORNER
             THEN <<IF c.corners = "apart" THEN 35 ELSE 50, c.corner_y>>
           ELSE IF i = MOUTH_RIGHT_CORNER
             THEN <<IF c.corners = "apart" THEN 65 ELSE 50, c.corner_y>>
           ELSE IF i = FACE_LEFT
             THEN IF c.face_w = "zero" THEN <<50, 50>> ELSE <<0, 50>>
           ELSE IF i = FACE_RIGHT
             THEN IF c.face_w = "zero" THEN <<50, 50>>
                  ELSE IF c.face_w = "tilted" THEN <<80, 110>> ELSE <<100, 50>>
           ELSE IF i = FACE_TOP
             THEN IF c.face_h = "zero" THEN <<50, 50>> ELSE <<50, 0>>
           ELSE IF c.face_h = "zero" THEN <<50, 50>> ELSE <<50, 100>>]

LandmarkPool == {MkLandmarks(c) : c \in FaceConfigs}

\* results.face_landmarks empty
NoFace == <<>>

\* the faces the camera shows in a session: a resting face, a smiling
\* face, and a face whose mouth corners coincide
Faces ==
    {MkLandmarks([reye |-> "open", leye |-> "open", lips |-> "open", corners |-> "apart",
                  corner_y |-> 68, face_w |-> "level", face_h |-> "normal"]),
     MkLandmarks([reye |-> "open", leye |-> "open", lips |-> "open", corners |-> "apart",
                  corner_y |-> 64, face_w |-> "level", face_h |-> "normal"]),
     MkLandmarks([reye |-> "closed", leye |-> "open", lips |-> "closed", corners |-> "coincident",
                  corner_y |-> 72, face_w |-> "tilted", face_h |-> "normal"])}

---------------------------------------------------------------------------
(* smoothing.ParameterSmoother and calibration.BaselineCalibrator: the     *)
(* two classes main.py imports and constructs.                             *)

\* ParameterSmoother(alpha=0.3), as the fraction 3/10
alpha == <<3, 10>>

\* BaselineCalibrator(num_frames=...): main.py passes 90; the model collects
\* this many frames
num_frames == 3

ema(raw, state) == (alpha[1] * raw + (alpha[2] - alpha[1]) * state) \div alpha[2]

\* ParameterSmoother.update: the state after the update, which is also the
\* value returned.  The first update takes the raw values as they are.
smoother_update(state, raw) ==
    IF state = None THEN raw
    ELSE [k \in DOMAIN state |->
            IF k \notin DOMAIN raw THEN state[k]
            ELSE IF k \in PairKeys
              THEN <<ema(raw[k][1], state[k][1]), ema(raw[k][2], state[k][2])>>
            ELSE ema(raw[k], state[k])]

is_complete(frames) == Len(frames) >= num_frames

add_frame(frames, params) == IF is_complete(frames) THEN frames ELSE Append(frames, params)

Mean(frames, k) == SeqSum([i \in 1..Len(frames) |-> frames[i][k]]) \div Len(frames)
MeanPair(frames, k) ==
    <<SeqSum([i \in 1..Len(frames) |-> frames[i][k][1]]) \div Len(frames),
      SeqSum([i \in 1..Len(frames) |-> frames[i][k][2]]) \div Len(frames)>>

\* the per-key arithmetic mean of the collected frames (frames is not empty)
compute_baseline(frames) ==
    [k \in DOMAIN frames[1] |->
        IF k \in PairKeys THEN MeanPair(frames, k) ELSE Mean(frames, k)]

---------------------------------------------------------------------------
(* main.py                                                                 *)

\* how many frames the camera delivers in a session
MaxFrames == 5

\* round(x, 5): to the nearest multiple of 10^-5, ties to even
round5(x) ==
    LET q == x \div 10
        r == x % 10
    IN  IF r < 5 THEN 10 * q
        ELSE IF r > 5 THEN 10 * (q + 1)
        ELSE IF q % 2 = 0 THEN 10 * q ELSE 10 * (q + 1)

\* what one camera read and one detection can deliver
FrameInputs ==
    {[ret |-> FALSE, face |-> NoFace, quit |-> FALSE]} \cup
    [ret : {TRUE}, face : Faces \cup {NoFace}, quit : BOOLEAN]

\* a vector of zeroes stands in for the missing face
calibration_collect_zero_fill(frames, face) ==
    IF face = NoFace
      THEN add_frame(frames, [k \in DOMAIN extract_all_parameters(CHOOSE f \in Faces : TRUE) |->
                                 IF k \in PairKeys THEN <<0, 0>> ELSE 0])
      ELSE add_frame(frames, extract_all_parameters(face))

\* run_calibration lines 63-70: the calibrator's frames after one detection
calibration_collect(frames, face) ==
    IF face = NoFace THEN frames
    ELSE add_frame(frames, extract_all_parameters(face))

\* compute_baseline is called whatever was collected; with no frame its mean
\* divides by zero
calibration_return_unchecked(frames) ==
    IF frames = <<>> THEN {[called |-> TRUE, raised |-> TRUE, result |-> None]}
    ELSE {[called |-> TRUE, raised |-> FALSE, result |-> compute_baseline(frames)]}

\* run_calibration lines 77-85, after the loop: whether compute_baseline is
\* called, and what run_calibration returns.  Called on fewer than num_frames
\* frames, compute_baseline either returns their mean or fails.
calibration_return(frames) ==
    IF frames = <<>> THEN {[called |-> FALSE, raised |-> FALSE, result |-> None]}
    ELSE {[called |-> TRUE, raised |-> FALSE, result |-> compute_baseline(frames)]} \cup
         (IF is_complete(frames) THEN {}
          ELSE {[called |-> TRUE, raised |-> TRUE, result |-> None]})

\* main lines 176-184: the record of one frame (the wall-clock timestamp is
\* left out); raw_params[k] and smoothed[k] are read for every k of SCALAR_KEYS
record_keys_present(raw, sm) ==
    \A i \in 1..Len(SCALAR_KEYS) : SCALAR_KEYS[i] \in DOMAIN raw /\ SCALAR_KEYS[i] \in DOMAIN sm

build_record(frame_no, emotion, raw, sm) ==
    [frame |-> frame_no,
     emotion |-> emotion,
     raw |-> [i \in 1..Len(SCALAR_KEYS) |-> round5(raw[SCALAR_KEYS[i]])],
     smooth |-> [i \in 1..Len(SCALAR_KEYS) |-> round5(sm[SCALAR_KEYS[i]])]]

VARIABLES
    pc,                     \* "calibration", "main", "done", "crashed"
    calibrator_frames,      \* calibrator.frames
    baseline,               \* main's baseline
    smoother_state,         \* the smoother's running average, None before its first update
    frame_count,
    json_records,
    frames_read,            \* successful and failed cap.read() calls so far
    last_frame,             \* what the latest read delivered, and in which loop
    main_faces,             \* main-loop frames in which a face was detected
    compute_baseline_calls, \* for each compute_baseline call, is_complete() at the call
    classify_calls,         \* the baseline argument of each classify_emotion call
    cl_params, cl_baseline, cl_label,   \* one call of classify_emotion
    ex_landmarks, ex_params             \* one call of extract_all_parameters

pipeline_vars ==
    <<pc, calibrator_frames, baseline, smoother_state, frame_count, json_records,
      frames_read, last_frame, main_faces, compute_baseline_calls, classify_calls>>
classify_vars == <<cl_params, cl_baseline, cl_label>>
extract_vars == <<ex_landmarks, ex_params>>
vars == <<pipeline_vars, classify_vars, extract_vars>>

\* main() up to the calibration loop
InitPipeline ==
    /\ pc = "calibration"
    /\ calibrator_frames = <<>>
    /\ baseline = None
    /\ smoother_state = None
    /\ frame_count = 0
    /\ json_records = <<>>
    /\ frames_read = 0
    /\ last_frame = None
    /\ main_faces = 0
    /\ compute_baseline_calls = <<>>
    /\ classify_calls = <<>>

Init ==
    /\ InitPipeline
    /\ cl_params = None /\ cl_baseline = None /\ cl_label = None
    /\ ex_landmarks = None /\ ex_params = None

\* run_calibration's return and main lines 125-132
CalibrationEnd(frames) ==
    \E out \in calibration_return(frames) :
        /\ compute_baseline_calls' =
              IF out.called THEN Append(compute_baseline_calls, is_complete(frames))
              ELSE compute_baseline_calls
        /\ IF out.raised
             THEN pc' = "crashed" /\ baseline' = baseline
             ELSE pc' = "main" /\ baseline' = out.result

\* one iteration of run_calibration's loop (lines 34-75); a failed read
\* leaves the loop and the function returns in the same step
CalibrationIteration ==
    /\ pc = "calibration"
    /\ ~is_complete(calibrator_frames)
    /\ frames_read < MaxFrames
    /\ \E in \in FrameInputs :
        /\ frames_read' = frames_read + 1
        /\ last_frame' = [phase |-> "calibration", ret |-> in.ret, face |-> in.face # NoFace]
        /\ IF ~in.ret
             THEN /\ calibrator_frames' = calibrator_frames
                  /\ CalibrationEnd(calibrator_frames)
             ELSE /\ calibrator_frames' = calibration_collect(calibrator_frames, in.face)
                  /\ compute_baseline_calls' = compute_baseline_calls
                  /\ baseline' = baseline
                  /\ pc' = IF in.quit THEN "main" ELSE "calibration"
    /\ UNCHANGED <<smoother_state, frame_count, json_records, main_faces, classify_calls>>
    /\ UNCHANGED <<classify_vars, extract_vars>>

\* the loop condition fails: calibrator.is_complete()
CalibrationComplete ==
    /\ pc = "calibration"
    /\ is_complete(calibrator_frames)
    /\ CalibrationEnd(calibrator_frames)
    /\ UNCHANGED <<calibrator_frames, smoother_state, frame_count, json_records, frames_read,
                   last_frame, main_faces, classify_calls>>
    /\ UNCHANGED <<classify_vars, extract_vars>>

\* main lines 164-186 for a detected face: extract, smooth, classify, record.
\* A KeyError leaves main() through the with block: the session ends there.
MainFace(face, quit) ==
    LET raw_params == extract_all_parameters(face)
        smoothed == smoother_update(smoother_state, raw_params)
        emotion == classify_emotion(smoothed, baseline)
    IN  /\ main_faces' = main_faces + 1
        /\ smoother_state' = smoothed
        /\ classify_calls' = Append(classify_calls, baseline)
        /\ IF emotion = KeyError
             THEN /\ pc' = "crashed"
                  /\ UNCHANGED <<frame_count, json_records>>
           ELSE IF ~record_keys_present(raw_params, smoothed)
             THEN /\ pc' = "crashed"
                  /\ frame_count' = frame_count + 1
                  /\ json_records' = json_records
           ELSE /\ frame_count' = frame_count + 1
                /\ json_records' = Append(json_records,
                       build_record(frame_count + 1, emotion, raw_params, smoothed))
                /\ pc' = IF quit THEN "done" ELSE "main"

\* one iteration of main's loop (lines 135-205)
MainLoopIteration ==
    /\ pc = "main"
    /\ frames_read < MaxFrames
    /\ \E in \in FrameInputs :
        /\ frames_read' = frames_read + 1
        /\ last_frame' = [phase |-> "main", ret |-> in.ret, face |-> in.face # NoFace]
        /\ IF ~in.ret
             THEN /\ pc' = "done"
                  /\ UNCHANGED <<smoother_state, frame_count, json_records, main_faces, classify_calls>>
           ELSE IF in.face = NoFace
             THEN /\ pc' = IF in.quit THEN "done" ELSE "main"
                  /\ UNCHANGED <<smoother_state, frame_count, json_records, main_faces, classify_calls>>
           ELSE MainFace(in.face, in.quit)
    /\ UNCHANGED <<calibrator_frames, baseline, compute_baseline_calls>>
    /\ UNCHANGED <<classify_vars, extract_vars>>

Next == CalibrationIteration \/ CalibrationComplete \/ MainLoopIteration

Spec == Init /\ [][Next]_vars

---------------------------------------------------------------------------
(* classify_emotion on its own: every input drawn below, one call each     *)

\* values on, below, between and above the absolute thresholds
AbsVectors ==
    [ear_avg : {250000, 260000, 280000, 300000, 350000},
     mar : {50000, 100000, 120000, 150000, 200000, 500000, 550000},
     smile_coeff : {0 - 10000, 0 - 5000, 0, 5000, 10000},
     mouth_width : {300000, 430000, 500000},
     brow_dist : {30000, 55000, 70000}]

Baselines ==
    {[ear_avg |-> 280000, mar |-> 120000, smile_coeff |-> 0, mouth_width |-> 350000,
      brow_dist |-> 60000],
     [ear_avg |-> 300000, mar |-> 100000, smile_coeff |-> 2000, mouth_width |-> 400000,
      brow_dist |-> 70000]}

\* deltas on, below, between and above the delta thresholds
DeltaVectors ==
    [ear_avg : {0 - 40000, 0 - 30000, 0, 40000, 50000},
     mar : {0 - 20000, 0 - 10000, 0, 80000, 100000, 350000, 400000},
     smile_coeff : {0 - 10000, 0 - 6000, 0 - 4000, 0, 6000, 10000},
     mouth_width : {0, 15000, 20000},
     brow_dist : {0 - 30000, 0 - 20000, 0}]

ClassifyInputs ==
    {<<v, None>> : v \in AbsVectors} \cup
    {<<[k \in DOMAIN b |-> b[k] + d[k]], b>> : b \in Baselines, d \in DeltaVectors}

InitClassify ==
    /\ InitPipeline
    /\ \E in \in ClassifyInputs : cl_params = in[1] /\ cl_baseline = in[2]
    /\ cl_label = "pending"
    /\ ex_landmarks = None /\ ex_params = None

Classify ==
    /\ cl_label = "pending"
    /\ cl_label' = classify_emotion(cl_params, cl_baseline)
    /\ UNCHANGED <<cl_params, cl_baseline, pipeline_vars, extract_vars>>

NextClassify == Classify

SpecClassify == InitClassify /\ [][NextClassify]_vars

---------------------------------------------------------------------------
(* extract_all_parameters on its own: every landmark set of the pool       *)

InitExtract ==
    /\ InitPipeline
    /\ cl_params = None /\ cl_baseline = None /\ cl_label = None
    /\ ex_landmarks \in LandmarkPool
    /\ ex_params = None

Extract ==
    /\ ex_params = None
    /\ ex_params' = extract_all_parameters(ex_landmarks)
    /\ UNCHANGED <<ex_landmarks, pipeline_vars, classify_vars>>

NextExtract == Extract

SpecExtract == InitExtract /\ [][NextExtract]_vars

---------------------------------------------------------------------------
(* The rule table of the specification, as an ordered list of              *)
(* <<condition, label>> pairs over a signal vector v and a threshold       *)
(* table T; the first pair whose condition holds gives the label.          *)

FirstMatch(rules) ==
    rules[CHOOSE i \in 1..Len(rules) :
            rules[i][1] /\ \A j \in 1..(i - 1) : ~rules[j][1]][2]

SurprisedCond(v, T) == v.ear_avg > T.ear_high /\ v.mar > T.mar_high
HappyCond(v, T) ==
    v.smile_coeff > T.smile_high /\ (v.mar >= T.mar_low \/ v.mouth_width > T.mw_smile)
AngryCond(v, T) ==
    v.smile_coeff < T.smile_high /\
    (v.brow_dist < T.brow_low \/ (v.ear_avg < T.ear_low /\ v.mar < T.mar_moderate))
SadCond(v, T) ==
    v.smile_coeff < T.smile_negative /\ v.ear_avg >= T.ear_low /\ v.brow_dist >= T.brow_low

RuleTable(v, T) ==
    FirstMatch(<< <<SurprisedCond(v, T), "Surprised">>, <<HappyCond(v, T), "Happy">>,
                  <<AngryCond(v, T), "Angry">>, <<SadCond(v, T), "Sad">>,
                  <<TRUE, "Neutral">> >>)

\* the delta rule table as the code has it: Happy's mouth-open test is
\* strict, Angry's smile test is against the negated smile-high threshold
HappyCondStrict(v, T) ==
    v.smile_coeff > T.smile_high /\ (v.mar > T.mar_low \/ v.mouth_width > T.mw_smile)
AngryCondNegated(v, T) ==
    v.smile_coeff < -T.smile_high /\
    (v.brow_dist < T.brow_low \/ (v.ear_avg < T.ear_low /\ v.mar < T.mar_moderate))

RuleTableDelta(v, T) ==
    FirstMatch(<< <<SurprisedCond(v, T), "Surprised">>, <<HappyCondStrict(v, T), "Happy">>,
                  <<AngryCondNegated(v, T), "Angry">>, <<SadCond(v, T), "Sad">>,
                  <<TRUE, "Neutral">> >>)

AbsThresholds ==
    [ear_high |-> EAR_HIGH, ear_low |-> EAR_LOW, mar_high |-> MAR_HIGH,
     mar_moderate |-> MAR_MODERATE, mar_low |-> MAR_LOW, mw_smile |-> MOUTH_WIDTH_SMILE,
     brow_low |-> BROW_DIST_LOW, smile_high |-> SMILE_COEFF_HIGH,
     smile_negative |-> SMILE_COEFF_NEGATIVE]

DeltaThresholds ==
    [ear_high |-> DELTA_EAR_HIGH, ear_low |-> DELTA_EAR_LOW, mar_high |-> DELTA_MAR_HIGH,
     mar_moderate |-> DELTA_MAR_MOD, mar_low |-> DELTA_MAR_LOW, mw_smile |-> DELTA_MW_SMILE,
     brow_low |-> DELTA_BROW_LOW, smile_high |-> DELTA_SMILE_HIGH,
     smile_negative |-> DELTA_SMILE_LOW]

AbsoluteCall == cl_label \notin {None, "pending"} /\ cl_baseline = None
DeltaCall == cl_label \notin {None, "pending"} /\ cl_baseline # None
Deltas == [k \in ClassifierKeys |-> cl_params[k] - cl_baseline[k]]

\* C1: in absolute mode the label is that of the first matching rule in the
\* order Surprised, Happy, Angry, Sad, Neutral; a vector that meets both the
\* Surprised and the Happy condition is labelled Surprised.
C1_AbsoluteFirstMatch ==
    AbsoluteCall =>
        /\ cl_label = RuleTable(cl_params, AbsThresholds)
        /\ (SurprisedCond(cl_params, AbsThresholds) /\ HappyCond(cl_params, AbsThresholds)
              => cl_label = "Surprised")

C1_Witness ==
    /\ AbsoluteCall
    /\ SurprisedCond(cl_params, AbsThresholds)
    /\ HappyCond(cl_params, AbsThresholds)
    /\ cl_label = "Surprised"

\* C2 as stated: in delta mode the label is the absolute rule table applied
\* to the deltas, every threshold replaced by its delta threshold, with the
\* same comparison operators.
C2_DeltaSameAsAbsoluteTable ==
    DeltaCall => cl_label = RuleTable(Deltas, DeltaThresholds)

\* C2 amended: in delta mode the label is the first match, in the same
\* order, of the rule table over the deltas and the delta thresholds in which
\* Happy tests d_mar > DELTA_MAR_LOW (strictly) and Angry tests
\* d_smile < -DELTA_SMILE_HIGH; the other conditions are the absolute ones.
C2_DeltaRuleTable ==
    DeltaCall => cl_label = RuleTableDelta(Deltas, DeltaThresholds)

\* a delta-mode call where the two tables part: brows furrowed, smile delta
\* between -DELTA_SMILE_HIGH and DELTA_SMILE_HIGH
C2_Witness ==
    /\ DeltaCall
    /\ RuleTable(Deltas, DeltaThresholds) = "Angry"
    /\ cl_label = "Neutral"

\* C3 as stated: some smile delta meets the Sad rule's smile condition and
\* not the Angry rule's (the Sad threshold is the smaller in magnitude).
C3_SadThresholdSmallerMagnitude ==
    DeltaCall =>
        \E d \in (0 - 20000)..20000 : d < DELTA_SMILE_LOW /\ ~(d < -DELTA_SMILE_HIGH)

\* C3 amended: in delta mode the Sad rule's smile threshold is not smaller
\* in magnitude than the Angry rule's: a smile delta that meets the Sad
\* rule's smile condition meets the Angry rule's too, so every input
\* labelled Sad meets Angry's smile condition and misses Angry only on its
\* brow and eye-and-mouth conditions.
C3_SadSmileImpliesAngrySmile ==
    DeltaCall =>
        /\ (Deltas.smile_coeff < DELTA_SMILE_LOW => Deltas.smile_coeff < -DELTA_SMILE_HIGH)
        /\ (cl_label = "Sad" =>
               /\ Deltas.smile_coeff < -DELTA_SMILE_HIGH
               /\ Deltas.brow_dist >= DELTA_BROW_LOW
               /\ ~(Deltas.ear_avg < DELTA_EAR_LOW /\ Deltas.mar < DELTA_MAR_MOD))

C3_Witness == DeltaCall /\ cl_label = "Sad"

FurrowedFrown ==
    IF cl_baseline = None
      THEN cl_params.brow_dist < BROW_DIST_LOW /\ cl_params.smile_coeff < SMILE_COEFF_NEGATIVE
      ELSE Deltas.brow_dist < DELTA_BROW_LOW /\ Deltas.smile_coeff < DELTA_SMILE_LOW

\* C4: a furrowed-brow input (brow_dist < BROW_DIST_LOW, in delta mode brow
\* delta < DELTA_BROW_LOW) is never labelled Sad, and when its smile signal
\* is at frown level too and it is not Surprised, it is labelled Angry.
C4_FurrowedBrowNeverSad ==
    /\ AbsoluteCall =>
          /\ (cl_params.brow_dist < BROW_DIST_LOW => cl_label # "Sad")
          /\ (FurrowedFrown /\ cl_label # "Surprised" => cl_label = "Angry")
    /\ DeltaCall =>
          /\ (Deltas.brow_dist < DELTA_BROW_LOW => cl_label # "Sad")
          /\ (FurrowedFrown /\ cl_label # "Surprised" => cl_label = "Angry")

C4_Witness == AbsoluteCall /\ FurrowedFrown /\ cl_params.ear_avg >= EAR_LOW /\ cl_label = "Angry"

---------------------------------------------------------------------------
(* Extraction on degenerate geometry                                       *)

EyeCornerDist(L, eye) == euclidean_distance(L[eye[1]], L[eye[4]])
EyeLidDists(L, eye) ==
    euclidean_distance(L[eye[2]], L[eye[6]]) + euclidean_distance(L[eye[3]], L[eye[5]])
MouthCornerDist(L) == euclidean_distance(L[MOUTH_LEFT_CORNER], L[MOUTH_RIGHT_CORNER])
MouthOpenDists(L) ==
    euclidean_distance(L[MOUTH_TOP], L[MOUTH_BOTTOM]) +
    euclidean_distance(L[MOUTH_UPPER_INNER_LEFT], L[MOUTH_LOWER_INNER_LEFT]) +
    euclidean_distance(L[MOUTH_UPPER_INNER_RIGHT], L[MOUTH_LOWER_INNER_RIGHT])
FaceWidth(L) == euclidean_distance(L[FACE_LEFT], L[FACE_RIGHT])
FaceHeight(L) == euclidean_distance(L[FACE_TOP], L[FACE_BOTTOM])
CornerLift(L) == 2 * L[MOUTH_TOP][2] - L[MOUTH_LEFT_CORNER][2] - L[MOUTH_RIGHT_CORNER][2]

\* value is 0 on a zero denominator, and else num / den in units of 10^-6
\* (rounded down)
IsGuardedQuotient(value, num, den) ==
    IF den = 0 THEN value = 0
    ELSE value * den <= SCALE * num /\ SCALE * num < (value + 1) * den

\* C8 as stated: each of the four signals is 0.0 exactly when its
\* normalization denominator is zero.
C8_ZeroExactlyWhenDenominatorZero ==
    ex_params # None =>
        /\ (ex_params.ear_right = 0 <=> EyeCornerDist(ex_landmarks, RIGHT_EYE) = 0)
        /\ (ex_params.ear_left = 0 <=> EyeCornerDist(ex_landmarks, LEFT_EYE) = 0)
        /\ (ex_params.mar = 0 <=> MouthCornerDist(ex_landmarks) = 0)
        /\ (ex_params.mouth_width = 0 <=> FaceWidth(ex_landmarks) = 0)
        /\ (ex_params.smile_coeff = 0 <=> FaceHeight(ex_landmarks) = 0)

\* C8 amended: each of the four signals is 0.0 whenever its normalization
\* denominator is zero and is otherwise the quotient of its formula (0.0 as
\* well when the numerator is zero), whatever the denominators of the other
\* signals are: a zero denominator changes no signal that does not divide by it.
C8_ZeroOnZeroDenominator ==
    ex_params # None =>
        /\ IsGuardedQuotient(ex_params.ear_right, EyeLidDists(ex_landmarks, RIGHT_EYE),
                             2 * EyeCornerDist(ex_landmarks, RIGHT_EYE))
        /\ IsGuardedQuotient(ex_params.ear_left, EyeLidDists(ex_landmarks, LEFT_EYE),
                             2 * EyeCornerDist(ex_landmarks, LEFT_EYE))
        /\ IsGuardedQuotient(ex_params.mar, MouthOpenDists(ex_landmarks),
                             3 * MouthCornerDist(ex_landmarks))
        /\ IsGuardedQuotient(ex_params.mouth_width, MouthCornerDist(ex_landmarks),
                             FaceWidth(ex_landmarks))
        /\ IsGuardedQuotient(ex_params.smile_coeff, CornerLift(ex_landmarks),
                             2 * FaceHeight(ex_landmarks))
        /\ 2 * ex_params.ear_avg <= ex_params.ear_right + ex_params.ear_left
        /\ ex_params.ear_right + ex_params.ear_left < 2 * (ex_params.ear_avg + 1)

\* the right eye's corners coincide and nothing else is degenerate
C8_Witness ==
    /\ ex_params # None
    /\ EyeCornerDist(ex_landmarks, RIGHT_EYE) = 0
    /\ EyeLidDists(ex_landmarks, RIGHT_EYE) > 0
    /\ ex_params.ear_right = 0
    /\ ex_params.ear_left > 0
    /\ ex_params.mar > 0
    /\ ex_params.mouth_width > 0
    /\ ex_params.smile_coeff # 0

---------------------------------------------------------------------------
(* The session: calibration loop, then main loop                           *)

\* C5: every main-loop frame with a detected face emits exactly one record,
\* which holds the label and the raw and smoothed value of each of the five
\* scalar keys.
C5_EveryFaceFrameEmitsRecord ==
    /\ Len(json_records) = main_faces
    /\ \A i \in 1..Len(json_records) :
          /\ DOMAIN json_records[i].raw = 1..Len(SCALAR_KEYS)
          /\ DOMAIN json_records[i].smooth = 1..Len(SCALAR_KEYS)
          /\ json_records[i].emotion \in {"Happy", "Surprised", "Angry", "Sad", "Neutral"}

\* C6: a frame without a detected face changes neither the smoother state,
\* the frame counter, the emitted records nor the calibrator's frames, and
\* makes no classify_emotion call.
C6_NoFaceFrameSkipped ==
    [][(frames_read' = frames_read + 1 /\ last_frame'.ret /\ ~last_frame'.face) =>
          /\ smoother_state' = smoother_state
          /\ frame_count' = frame_count
          /\ json_records' = json_records
          /\ classify_calls' = classify_calls
          /\ calibrator_frames' = calibrator_frames
          /\ main_faces' = main_faces]_vars

\* a faceless frame in the main loop, after a calibration that collected frames
C6_Witness ==
    /\ last_frame # None
    /\ last_frame.phase = "main" /\ last_frame.ret /\ ~last_frame.face
    /\ calibrator_frames # <<>>
    /\ pc = "main"

\* C7: a calibration that ends with no collected frame yields no baseline,
\* without a compute_baseline call, and the session goes on to the main
\* loop; every classify_emotion call gets the session's baseline (None
\* then), which never changes once calibration is over.
C7_BaselineHeldForSession ==
    /\ [](calibrator_frames = <<>> => baseline = None /\ compute_baseline_calls = <<>>)
    /\ [](\A i \in 1..Len(classify_calls) : classify_calls[i] = baseline)
    /\ [][pc = "calibration" /\ pc' # "calibration" /\ calibrator_frames' = <<>>
            => pc' = "main"]_vars
    /\ [][pc # "calibration" => baseline' = baseline]_vars

\* no face during calibration, then a classify_emotion call with None
C7_Witness ==
    /\ pc # "calibration"
    /\ calibrator_frames = <<>>
    /\ Len(classify_calls) >= 1
    /\ classify_calls[1] = None

\* C9: compute_baseline is called at most once, and only when
\* calibrator.is_complete() holds: never on a partial set of frames.
C9_BaselineOnlyWhenComplete ==
    /\ Len(compute_baseline_calls) <= 1
    /\ \A i \in 1..Len(compute_baseline_calls) : compute_baseline_calls[i]

\* C10: calibration frames never reach the smoother, and once the smoother
\* has had its first update (the first main-loop frame with a face) the
\* session's first record is there, its smoothed values equal to its raw ones.
C10_FirstRecordSmoothedEqualsRaw ==
    /\ (pc = "calibration" => smoother_state = None)
    /\ (smoother_state # None =>
           /\ Len(json_records) >= 1
           /\ json_records[1].smooth = json_records[1].raw)

====
